---- MODULE Spec2Model ----
(***************************************************************************)
(* Model of the os-release parser (src/src/lib.rs).                        *)
(*                                                                         *)
(* A string is a sequence of one-character strings.  The record built by   *)
(* OsRelease::from_iter is a TLA+ record with the 18 String fields and the *)
(* BTreeMap `extra`, kept as a set of <<key, value>> pairs.  One call of    *)
(* from_iter, OsRelease::new or OsRelease::new_from is followed from its   *)
(* start to its return (or to the abort of the thread).                    *)
(***************************************************************************)
EXTENDS Integers, Sequences, FiniteSets, TLC

\* ------------------------------------------------------------------ bounds
MaxLines == 2       \* lines in the sequence given to from_iter / in a file
MaxTail == 3        \* characters after the head of a generated line

\* ----------------------------------------------------------- string helpers
White == {" ", "\t"}
Quotes == {"\"", "'"}

RECURSIVE TrimStart(_)
TrimStart(s) ==
    IF s # <<>> /\ Head(s) \in White THEN TrimStart(Tail(s)) ELSE s

RECURSIVE TrimEnd(_)
TrimEnd(s) ==
    IF s # <<>> /\ s[Len(s)] \in White
    THEN TrimEnd(SubSeq(s, 1, Len(s) - 1))
    ELSE s

\* str::trim
Trim(s) == TrimEnd(TrimStart(s))

\* str::starts_with(&str)
StartsWith(s, p) == Len(p) <= Len(s) /\ SubSeq(s, 1, Len(p)) = p

\* line.find('='): the byte offset of the first '=', or -1 for None
Find(s, c) ==
    IF \E i \in 1..Len(s) : s[i] = c
    THEN (CHOOSE i \in 1..Len(s) : s[i] = c /\ \A j \in 1..(i - 1) : s[j] # c) - 1
    ELSE -1

\* The value that stands for a thread that panicked inside an expression.
Panic == <<"!panic">>

\* &s[from..to]: aborts when from > to or to > len
Slice(s, from, to) ==
    IF from > to \/ to > Len(s) THEN Panic ELSE SubSeq(s, from + 1, to)

\* ------------------------------------------------------------- parse_line
\* a variant that looks at the first character only
is_enclosed_with_StartOnly(line, pattern) ==
    line # <<>> /\ Head(line) = pattern

is_enclosed_with(line, pattern) ==
    /\ line # <<>>
    /\ Head(line) = pattern
    /\ line[Len(line)] = pattern

parse_line(line, skip) ==
    LET l == Trim(SubSeq(line, skip + 1, Len(line)))
    IN  IF is_enclosed_with(l, "\"") \/ is_enclosed_with(l, "'")
        THEN Slice(l, 1, Len(l) - 1)
        ELSE l

\* ------------------------------------------------------------- the record
Default ==
    [ name |-> <<"L","i","n","u","x">>,
      id |-> <<"l","i","n","u","x">>,
      pretty_name |-> <<"L","i","n","u","x">>,
      version |-> <<>>,
      id_like |-> <<>>,
      version_codename |-> <<>>,
      version_id |-> <<>>,
      ansi_color |-> <<>>,
      cpe_name |-> <<>>,
      home_url |-> <<>>,
      documentation_url |-> <<>>,
      support_url |-> <<>>,
      bug_report_url |-> <<>>,
      privacy_policy_url |-> <<>>,
      build_id |-> <<>>,
      variant |-> <<>>,
      variant_id |-> <<>>,
      logo |-> <<>>,
      extra |-> {} ]

\* The table of the map_keys! invocation, in its order.
KnownKeys ==
    << [pat |-> <<"N","A","M","E","=">>, field |-> "name"],
       [pat |-> <<"V","E","R","S","I","O","N","=">>, field |-> "version"],
       [pat |-> <<"I","D","=">>, field |-> "id"],
       [pat |-> <<"I","D","_","L","I","K","E","=">>, field |-> "id_like"],
       [pat |-> <<"V","E","R","S","I","O","N","_","I","D","=">>, field |-> "version_id"],
       [pat |-> <<"V","E","R","S","I","O","N","_","C","O","D","E","N","A","M","E","=">>,
        field |-> "version_codename"],
       [pat |-> <<"P","R","E","T","T","Y","_","N","A","M","E","=">>, field |-> "pretty_name"],
       [pat |-> <<"A","N","S","I","_","C","O","L","O","R","=">>, field |-> "ansi_color"],
       [pat |-> <<"C","P","E","_","N","A","M","E","=">>, field |-> "cpe_name"],
       [pat |-> <<"H","O","M","E","_","U","R","L","=">>, field |-> "home_url"],
       [pat |-> <<"D","O","C","U","M","E","N","T","A","T","I","O","N","_","U","R","L","=">>,
        field |-> "documentation_url"],
       [pat |-> <<"S","U","P","P","O","R","T","_","U","R","L","=">>, field |-> "support_url"],
       [pat |-> <<"B","U","G","_","R","E","P","O","R","T","_","U","R","L","=">>,
        field |-> "bug_report_url"],
       [pat |-> <<"P","R","I","V","A","C","Y","_","P","O","L","I","C","Y","_","U","R","L","=">>,
        field |-> "privacy_policy_url"],
       [pat |-> <<"B","U","I","L","D","_","I","D","=">>, field |-> "build_id"],
       [pat |-> <<"V","A","R","I","A","N","T","=">>, field |-> "variant"],
       [pat |-> <<"V","A","R","I","A","N","T","_","I","D","=">>, field |-> "variant_id"],
       [pat |-> <<"L","O","G","O","=">>, field |-> "logo"] >>

Fields == { KnownKeys[i].field : i \in 1..Len(KnownKeys) }

\* a variant that compares the key names without their '='
map_keys_Loose(line) ==
    LET name(i) == SubSeq(KnownKeys[i].pat, 1, Len(KnownKeys[i].pat) - 1)
    IN  IF \E i \in 1..Len(KnownKeys) : StartsWith(line, name(i))
        THEN CHOOSE i \in 1..Len(KnownKeys) :
                /\ StartsWith(line, name(i))
                /\ \A j \in 1..(i - 1) : ~StartsWith(line, name(j))
        ELSE 0

\* map_keys!: the first entry whose pattern starts the line, 0 when none does
map_keys(line) ==
    IF \E i \in 1..Len(KnownKeys) : StartsWith(line, KnownKeys[i].pat)
    THEN CHOOSE i \in 1..Len(KnownKeys) :
            /\ StartsWith(line, KnownKeys[i].pat)
            /\ \A j \in 1..(i - 1) : ~StartsWith(line, KnownKeys[j].pat)
    ELSE 0

\* a variant that keeps the entry a key already has
Insert_KeepFirst(extra, key, value) ==
    IF \E e \in extra : e[1] = key THEN extra ELSE extra \cup { <<key, value>> }

\* BTreeMap::insert: the entry of the key is replaced
Insert(extra, key, value) ==
    { e \in extra : e[1] # key } \cup { <<key, value>> }

\* a variant that accepts an empty value
HasValue_Inclusive(line, pos) == Len(line) > pos

\* the test `line.len() > pos + 1` of the overflow branch
HasValue(line, pos) == Len(line) > pos + 1

\* a variant that treats the value as the known fields' values are treated
OverflowEntry_Stripped(line, pos) ==
    << Slice(line, 0, pos), parse_line(line, pos + 1) >>

\* the pair the overflow branch inserts
OverflowEntry(line, pos) ==
    << Slice(line, 0, pos), Slice(line, pos + 1, Len(line)) >>

\* The loop body aborts on the line: parse_line slices out of range.
LoopPanics(raw) ==
    LET line == Trim(raw)
        k == map_keys(line)
    IN  k # 0 /\ parse_line(line, Len(KnownKeys[k].pat)) = Panic

\* One iteration of the loop of from_iter on the record r, for a line on
\* which it does not abort: the record after it.
LoopBody(r, raw) ==
    LET line == Trim(raw)
        k == map_keys(line)
        pos == Find(line, "=")
    IN  IF k # 0
        THEN [r EXCEPT ![KnownKeys[k].field] = parse_line(line, Len(KnownKeys[k].pat))]
        ELSE IF pos >= 0 /\ HasValue(line, pos)
             THEN LET e == OverflowEntry(line, pos)
                  IN  [r EXCEPT !.extra = Insert(r.extra, e[1], e[2])]
             ELSE r

\* ------------------------------------------------------------ file system
EtcPath == "/etc/os-release"
UsrPath == "/usr/lib/os-release"
OtherPath == "examples/pop_cosmic"
Paths == {EtcPath, UsrPath, OtherPath}

\* a variant that tries the two paths in the other order
NewPaths_Swapped == <<UsrPath, EtcPath>>

\* the paths OsRelease::new tries, in its order
NewPaths == <<EtcPath, UsrPath>>

Causes == {"NotFound", "PermissionDenied"}

\* An item of a file that is not valid UTF-8: BufRead::lines yields Err for
\* it and goes on with the next line.
Bad == <<"!bad">>

\* What File::open finds at a path: an error, a directory (it opens, and
\* every read of it fails), or a file with its lines.
NoFile(why) == [ok |-> FALSE, why |-> why, dir |-> FALSE, items |-> <<>>]
Directory == [ok |-> TRUE, why |-> "", dir |-> TRUE, items |-> <<>>]
RegularFile(items) == [ok |-> TRUE, why |-> "", dir |-> FALSE, items |-> items]

\* the io::Error of open(): "unable to open file at {:?}: {}"
OpenError(path, why) == <<"unable to open file at ", path, ": ", why>>

\* the io::Error of new(): "{} then {}"
CompositeError(first_err, second_err) == first_err \o <<" then ">> \o second_err

NoResult == [tag |-> "none", rec |-> Default, msg |-> <<>>]
Ok(r) == [tag |-> "Ok", rec |-> r, msg |-> <<>>]
Err(m) == [tag |-> "Err", rec |-> Default, msg |-> m]

\* ------------------------------------------------------------------ inputs
TailChars == {"a", "=", "\"", " "}
Tails == UNION { [1..n -> TailChars] : n \in 0..MaxTail }

\* remainders with the other quote character, alone and mixed with the first
SingleQuoteTails ==
    { <<"'">>, <<"'", "'">>, <<"'", "a", "'">>, <<"'", "\"", "'">>,
      <<"\"", "a", "'">>, <<"'", "a", "\"">>, <<"'", "a">>, <<" ", "'", "a", "'", " ">> }

NamePat == KnownKeys[1].pat
RichHeads == { NamePat, <<"K", "=">>, <<"#">> }

\* lines that exercise trimming, quotes and the first '='
RichLines ==
    { h \o t : h \in RichHeads, t \in Tails }
    \cup { NamePat \o t : t \in SingleQuoteTails }
    \cup { KnownKeys[i].pat \o t : i \in 1..Len(KnownKeys), t \in {<<>>, <<"b">>} }
    \cup { <<"N", "A", "M", "E">> }

PlainLines ==
    { <<>>,
      <<"K", "=", "b">>,
      <<"J", "=", "b">>,
      <<"#", " ", "c">>,
      <<" ", "I", "D", "=", "b", " ">>,
      <<"V","E","R","S","I","O","N","_","I","D","=","c">> }

PlainSeqs(n) == [1..n -> PlainLines]

\* the sequence of n lines with the line r at position p and the lines of s around
WithLine(n, p, r, s) ==
    [i \in 1..n |-> IF i = p THEN r ELSE IF i < p THEN s[i] ELSE s[i - 1]]

FileItems == { Bad, <<"K", "=", "b">>, NamePat \o <<"b">>, NamePat \o <<"\"">> }
FileContents == UNION { [1..n -> FileItems] : n \in 0..MaxLines }
FileStates ==
    { NoFile(w) : w \in Causes } \cup {Directory}
    \cup { RegularFile(c) : c \in FileContents }

\* ------------------------------------------------------------------- state
VARIABLES
    call,        \* the entry point: "from_iter", "new" or "new_from"
    fs,          \* what File::open finds at each path
    opens,       \* the paths File::open was called with, in order
    first_err,   \* new(): the error of the first open
    src,         \* the items behind the iterator given to from_iter
    sticky,      \* the reader's reads fail without consuming (a directory)
    pos,         \* the number of items of src the iterator has consumed
    cur,         \* the value of the last lines.next()
    os_release,  \* the record under construction
    result,      \* the value the call returned
    pc           \* the position of the call

vars == <<call, fs, opens, first_err, src, sticky, pos, cur, os_release, result, pc>>

None == <<"!none">>
ErrItem == <<"!err">>
NoCur == <<"!start">>

IsLine(x) == x \notin {None, ErrItem, NoCur, Bad}

Absent == [p \in Paths |-> NoFile("NotFound")]

Init ==
    /\ opens = <<>>
    /\ first_err = <<>>
    /\ pos = 0
    /\ cur = NoCur
    /\ os_release = Default
    /\ result = NoResult
    /\ \/ /\ call = "from_iter"
          /\ fs = Absent
          /\ \/ src = <<>>
             \/ \E n \in 1..MaxLines, p \in 1..MaxLines :
                   /\ p <= n
                   /\ \E r \in RichLines \cup PlainLines, s \in PlainSeqs(n - 1) :
                         src = WithLine(n, p, r, s)
          /\ sticky = FALSE
          /\ pc = "next"
       \/ /\ call = "new"
          /\ \E e, u \in FileStates :
                fs = [Absent EXCEPT ![EtcPath] = e, ![UsrPath] = u]
          /\ src = <<>>
          /\ sticky = FALSE
          /\ pc = "start"
       \/ /\ call = "new_from"
          /\ \E o \in FileStates :
                fs = [p \in Paths |->
                        IF p = OtherPath THEN o
                        ELSE RegularFile(<< <<"K", "=", "b">> >>)]
          /\ src = <<>>
          /\ sticky = FALSE
          /\ pc = "start"

\* BufReader::new(file) and the start of from_iter over file.lines().flatten()
StartReading(path) ==
    /\ src' = fs[path].items
    /\ sticky' = fs[path].dir
    /\ pc' = "next"

\* new(): open("/etc/os-release")
OpenFirst ==
    /\ call = "new" /\ pc = "start"
    /\ opens' = Append(opens, NewPaths[1])
    /\ IF fs[NewPaths[1]].ok
       THEN /\ StartReading(NewPaths[1])
            /\ UNCHANGED <<first_err, result>>
       ELSE /\ first_err' = OpenError(NewPaths[1], fs[NewPaths[1]].why)
            /\ pc' = "fallback"
            /\ UNCHANGED <<src, sticky, result>>
    /\ UNCHANGED <<call, fs, pos, cur, os_release>>

\* new(): the or_else closure, open("/usr/lib/os-release")
OpenFallback ==
    /\ call = "new" /\ pc = "fallback"
    /\ opens' = Append(opens, NewPaths[2])
    /\ IF fs[NewPaths[2]].ok
       THEN /\ StartReading(NewPaths[2])
            /\ UNCHANGED result
       ELSE /\ result' = Err(CompositeError(first_err,
                                OpenError(NewPaths[2], fs[NewPaths[2]].why)))
            /\ pc' = "returned"
            /\ UNCHANGED <<src, sticky>>
    /\ UNCHANGED <<call, fs, first_err, pos, cur, os_release>>

\* new_from(path): open(&path)?
OpenPath ==
    /\ call = "new_from" /\ pc = "start"
    /\ opens' = Append(opens, OtherPath)
    /\ IF fs[OtherPath].ok
       THEN /\ StartReading(OtherPath)
            /\ UNCHANGED result
       ELSE /\ result' = Err(OpenError(OtherPath, fs[OtherPath].why))
            /\ pc' = "returned"
            /\ UNCHANGED <<src, sticky>>
    /\ UNCHANGED <<call, fs, first_err, pos, cur, os_release>>

\* Lines::next: the next line, an error, or the end
LinesNext ==
    /\ pc = "next"
    /\ IF sticky
       THEN cur' = ErrItem /\ pos' = pos
       ELSE IF pos < Len(src)
            THEN /\ cur' = (IF src[pos + 1] = Bad THEN ErrItem ELSE src[pos + 1])
                 /\ pos' = pos + 1
            ELSE cur' = None /\ pos' = pos
    /\ pc' = "got"
    /\ UNCHANGED <<call, fs, opens, first_err, src, sticky, os_release, result>>

\* Flatten::next: an Err item is dropped and the inner iterator asked again
FlattenSkip ==
    /\ pc = "got" /\ cur = ErrItem
    /\ pc' = "next"
    /\ UNCHANGED <<call, fs, opens, first_err, src, sticky, pos, cur, os_release, result>>

\* the body of `for line in lines`
Body ==
    /\ pc = "got" /\ IsLine(cur) /\ ~LoopPanics(cur)
    /\ os_release' = LoopBody(os_release, cur)
    /\ pc' = "next"
    /\ UNCHANGED <<call, fs, opens, first_err, src, sticky, pos, cur, result>>

\* the body of `for line in lines`, aborting in parse_line
BodyPanic ==
    /\ pc = "got" /\ IsLine(cur) /\ LoopPanics(cur)
    /\ pc' = "panicked"
    /\ UNCHANGED <<call, fs, opens, first_err, src, sticky, pos, cur, os_release, result>>

\* the end of the loop: from_iter returns os_release, new/new_from wrap it in Ok
Return ==
    /\ pc = "got" /\ cur = None
    /\ result' = Ok(os_release)
    /\ pc' = "returned"
    /\ UNCHANGED <<call, fs, opens, first_err, src, sticky, pos, cur, os_release>>

Next ==
    \/ OpenFirst
    \/ OpenFallback
    \/ OpenPath
    \/ LinesNext
    \/ FlattenSkip
    \/ Body
    \/ BodyPanic
    \/ Return

Spec == Init /\ [][Next]_vars

\* The caller keeps polling the iterator: every enabled step is taken.
FairSpec == Spec /\ WF_vars(Next)

TypeOK ==
    /\ call \in {"from_iter", "new", "new_from"}
    /\ pc \in {"start", "fallback", "next", "got", "returned", "panicked"}
    /\ pos \in 0..Len(src)

\* ---------------------------------------------------- vocabulary of claims
\* the step about to be taken processes cur as a line of the input
AtLine == pc = "got" /\ IsLine(cur)

\* the line as the loop body sees it
Seen == Trim(cur)

\* the entries of the table whose prefix starts the text t
KnownAt(t) == { k \in 1..Len(KnownKeys) : StartsWith(t, KnownKeys[k].pat) }

\* the text after the prefix of entry k, without surrounding whitespace
Remainder(t, k) == Trim(SubSeq(t, Len(KnownKeys[k].pat) + 1, Len(t)))

HasEq(t) == \E i \in 1..Len(t) : t[i] = "="
FirstEq(t) == CHOOSE i \in 1..Len(t) : t[i] = "=" /\ \A j \in 1..(i - 1) : t[j] # "="
KeyOf(t) == SubSeq(t, 1, FirstEq(t) - 1)
ValueOf(t) == SubSeq(t, FirstEq(t) + 1, Len(t))

\* t is an unknown KEY=value text with a non-empty value
Carries(t) == KnownAt(t) = {} /\ HasEq(t) /\ ValueOf(t) # <<>>

\* the lines the iterator delivers: the items of src that are text
LineAt(i) == src[i] # Bad
Returned == pc = "returned" /\ result.tag = "Ok"

\* ----------------------------------------------------------------- claims

\* C1: parsing never fails: from_iter never aborts, whatever the lines.
C1_NeverPanics == pc # "panicked"

\* C2 (as stated): an unknown KEY=value line of the input, value non-empty
\* and the key not written again by a later line, leaves in extra the pair of
\* the text before and the text after the first '=' of the input line,
\* untrimmed.
C2_RawPairStored ==
    Returned =>
        \A i \in 1..Len(src) :
            ( /\ LineAt(i)
              /\ HasEq(src[i])
              /\ \A k \in 1..Len(KnownKeys) : KeyOf(src[i]) \o <<"=">> # KnownKeys[k].pat
              /\ ValueOf(src[i]) # <<>>
              /\ \A j \in (i + 1)..Len(src) :
                    LineAt(j) /\ HasEq(src[j]) => KeyOf(src[j]) # KeyOf(src[i]) )
            => <<KeyOf(src[i]), ValueOf(src[i])>> \in result.rec.extra

\* C2 (amended): a line whose trimmed text starts with no known prefix and is
\* KEY=value with a non-empty value, the key not written again by a later
\* line, leaves in extra the pair of the text before and the text after the
\* first '=' of the trimmed line, with no further trimming and no
\* quote-stripping.
C2_TrimmedPairStored ==
    Returned =>
        \A i \in 1..Len(src) :
            ( /\ LineAt(i)
              /\ Carries(Trim(src[i]))
              /\ \A j \in (i + 1)..Len(src) :
                    LineAt(j) /\ Carries(Trim(src[j]))
                        => KeyOf(Trim(src[j])) # KeyOf(Trim(src[i])) )
            => <<KeyOf(Trim(src[i])), ValueOf(Trim(src[i]))>> \in result.rec.extra

\* C2 witness: a value that starts with a blank and a quote is stored as is.
C2_Witness ==
    /\ Returned
    /\ call = "from_iter"
    /\ <<"K", "=", " ", "\"", "a">> \in { src[i] : i \in 1..Len(src) }
    /\ << <<"K">>, <<" ", "\"", "a">> >> \in result.rec.extra

\* C3 (as stated): a line KEY= with nothing after the '=' leaves the record
\* as it was, for unknown and for known keys.
C3_EmptyValueDropped ==
    [][ (AtLine /\ HasEq(cur) /\ FirstEq(cur) = Len(cur))
            => os_release' = os_release ]_vars

\* C3 (amended): a line KEY= with nothing after the '=' leaves the record as
\* it was when its trimmed text starts with no known prefix; when its trimmed
\* text is a known prefix it sets the field of that prefix to the empty
\* string and changes nothing else.
C3_EmptyValueUnknownDropped ==
    [][ (AtLine /\ HasEq(cur) /\ FirstEq(cur) = Len(cur))
            => /\ pc' = "next"
               /\ KnownAt(Seen) = {} => os_release' = os_release
               /\ \A k \in KnownAt(Seen) :
                     os_release' = [os_release EXCEPT ![KnownKeys[k].field] = <<>>] ]_vars

\* C3 witness: K=b, then K= was processed and the entry of K is still there.
C3_Witness ==
    /\ pc = "next"
    /\ pos = 2
    /\ src[1] = <<"K", "=", "b">>
    /\ cur = <<"K", "=">>
    /\ os_release.extra = { << <<"K">>, <<"b">> >> }

\* C4: a blank line, and a line whose first non-blank character is '#',
\* leaves the record as it was.
C4_CommentsIgnored ==
    [][ (AtLine /\ (Seen = <<>> \/ (Seen # <<>> /\ Head(Seen) = "#")))
            => os_release' = os_release ]_vars

\* C5: after a known prefix, a trimmed remainder of at least two characters
\* is stored without its first and last character when these are the same
\* quote character, and unchanged otherwise.
C5_QuoteStripping ==
    [][ AtLine =>
            \A k \in KnownAt(Seen) :
                LET rem == Remainder(Seen, k)
                IN  Len(rem) >= 2 =>
                        /\ pc' = "next"
                        /\ os_release'[KnownKeys[k].field] =
                              IF rem[1] \in Quotes /\ rem[Len(rem)] = rem[1]
                              THEN SubSeq(rem, 2, Len(rem) - 1)
                              ELSE rem ]_vars

\* C5 witness: NAME="a" was processed and name is a.
C5_Witness ==
    /\ pc = "next"
    /\ cur = NamePat \o <<"\"", "a", "\"">>
    /\ os_release.name = <<"a">>

\* C6: after a known prefix, a trimmed remainder that is one quote character
\* is stored as that one character.
C6_LoneQuoteKept ==
    [][ AtLine =>
            \A k \in KnownAt(Seen) :
                LET rem == Remainder(Seen, k)
                IN  (Len(rem) = 1 /\ rem[1] \in Quotes) =>
                        /\ pc' = "next"
                        /\ os_release'[KnownKeys[k].field] = rem ]_vars

\* the record a file's items parse to: the lines that read fail on are skipped
RECURSIVE ParsedFrom(_, _)
ParsedFrom(r, items) ==
    IF items = <<>> THEN r
    ELSE IF Head(items) = Bad THEN ParsedFrom(r, Tail(items))
    ELSE ParsedFrom(LoopBody(r, Head(items)), Tail(items))

\* C7: new() opens /etc/os-release first and /usr/lib/os-release only after
\* the first open failed; it returns an error only when both failed, made of
\* the first error, " then ", and the second; when an open succeeds it returns
\* Ok with the record of that file.  new_from(path) opens only the path and
\* returns that open's error.
C7_SourceResolution ==
    /\ call = "new" =>
        /\ Len(opens) <= 2
        /\ Len(opens) >= 1 => opens[1] = "/etc/os-release"
        /\ Len(opens) = 2 => opens[2] = "/usr/lib/os-release" /\ ~fs["/etc/os-release"].ok
        /\ pc \in {"next", "got", "panicked"} =>
              /\ fs[opens[Len(opens)]].ok
              /\ src = fs[opens[Len(opens)]].items
        /\ pc = "returned" =>
              IF fs["/etc/os-release"].ok
              THEN result = Ok(ParsedFrom(Default, fs["/etc/os-release"].items))
                   /\ opens = <<"/etc/os-release">>
              ELSE IF fs["/usr/lib/os-release"].ok
              THEN result = Ok(ParsedFrom(Default, fs["/usr/lib/os-release"].items))
              ELSE result = Err(
                      <<"unable to open file at ", "/etc/os-release", ": ",
                        fs["/etc/os-release"].why, " then ",
                        "unable to open file at ", "/usr/lib/os-release", ": ",
                        fs["/usr/lib/os-release"].why>>)
    /\ call = "new_from" =>
        /\ opens \in {<<>>, <<OtherPath>>}
        /\ pc = "returned" =>
              IF fs[OtherPath].ok
              THEN result = Ok(ParsedFrom(Default, fs[OtherPath].items))
              ELSE result = Err(<<"unable to open file at ", OtherPath, ": ",
                                  fs[OtherPath].why>>)
    /\ call = "from_iter" => opens = <<>>

\* C7 witness: both opens failed, for different reasons, and new() returned
\* the error made of both.
C7_Witness ==
    /\ call = "new"
    /\ pc = "returned"
    /\ opens = <<"/etc/os-release", "/usr/lib/os-release">>
    /\ fs["/etc/os-release"].why = "NotFound"
    /\ fs["/usr/lib/os-release"].why = "PermissionDenied"
    /\ result.tag = "Err"

\* the positions of src whose line carries an overflow key and value
CarryAt == { i \in 1..Len(src) : LineAt(i) /\ Carries(Trim(src[i])) }
LastCarryAt ==
    { i \in CarryAt :
        \A j \in CarryAt : j > i => KeyOf(Trim(src[j])) # KeyOf(Trim(src[i])) }

\* C8: after from_iter, extra has at most one entry per key, and its entries
\* are the key and value of the last line that carries each key with a
\* non-empty value.
C8_LastWriteWins ==
    Returned =>
        /\ \A e1, e2 \in result.rec.extra : e1[1] = e2[1] => e1 = e2
        /\ result.rec.extra =
              { <<KeyOf(Trim(src[i])), ValueOf(Trim(src[i]))>> : i \in LastCarryAt }

\* C8 witness: two lines carry the same key with different values and extra
\* holds the second value.
C8_Witness ==
    /\ Returned
    /\ Len(src) = 2
    /\ CarryAt = {1, 2}
    /\ KeyOf(Trim(src[1])) = KeyOf(Trim(src[2]))
    /\ ValueOf(Trim(src[1])) # ValueOf(Trim(src[2]))
    /\ result.rec.extra = { <<KeyOf(Trim(src[2])), ValueOf(Trim(src[2]))>> }

\* the fields and extra, as the components of the record
Components == Fields \cup {"extra"}
Changed(r1, r2) == { c \in Components : r1[c] # r2[c] }

C9_Step ==
    AtLine =>
        /\ Cardinality(Changed(os_release, os_release')) <= 1
        /\ \A k \in KnownAt(Seen) :
              Changed(os_release, os_release') \subseteq {KnownKeys[k].field}
        /\ KnownAt(Seen) = {} =>
              Changed(os_release, os_release') \subseteq {"extra"}

C9_Final ==
    Returned =>
        /\ \A k \in 1..Len(KnownKeys) :
              (\A i \in 1..Len(src) :
                    LineAt(i) => ~StartsWith(Trim(src[i]), KnownKeys[k].pat))
                => result.rec[KnownKeys[k].field] = Default[KnownKeys[k].field]
        /\ CarryAt = {} => result.rec.extra = {}

\* C9: a line changes at most one component of the record: the field of the
\* known prefix that starts it and nothing else, or no field when no known
\* prefix starts it; after from_iter a field whose prefix starts no line has
\* its default, and extra is empty when no line is an unknown KEY=value line.
C9_Frame == [][C9_Step]_vars /\ []C9_Final

\* C9 witness: VERSION_ID=c and another line were parsed; version_id is c,
\* version is still empty and id still "linux".
C9_Witness ==
    /\ Returned
    /\ call = "from_iter"
    /\ Len(src) = 2
    /\ result.rec.version_id = <<"c">>
    /\ result.rec.version = <<>>
    /\ result.rec.id = <<"l","i","n","u","x">>
    /\ result.rec.name # <<"L","i","n","u","x">>

\* C10: once the file is open every call leaves the loop over the reader's
\* lines.
C10_EventuallyReturns == <>(pc \in {"returned", "panicked"})

====
